---- MODULE Spec2Model ----
(***************************************************************************)
(* A model of the Aluminum scripts: the history remover                    *)
(* (src/sys/History/Atomics.HistoryRemoval.py), the calculator             *)
(* (src/tools/webapps/Utility.Calcuator.py), the browser database          *)
(* (src/sys/database.py), the browser history wrapper                      *)
(* (src/sys/History/BrowserHistory.py) and the system data compiler        *)
(* (src/sys/compileSystemData.py).  The scripts share no state, so         *)
(* each has its own specification over its own variables; the variables of *)
(* the other scripts stay at their idle values.                            *)
(***************************************************************************)
EXTENDS Integers, Sequences, FiniteSets, TLC

VARIABLES
    \* ---- AluminumHistoryRemover ----
    pc,           \* position inside run and remove_history_atomic
    osType,       \* what determine_os found, "" before it is called
    runLog,       \* the messages run itself has logged
    historyFile,  \* the profile's History file: [exists, data]
    origHistory,  \* the History file as it was when the run started
    backupFile,   \* backup_dir / "History": [exists, data]
    related,      \* kind of each related path: "absent", "file" or "dir"
    cacheDir,     \* the Cache directory: "absent", "full" or "empty"
    events,       \* the steps that have acted so far, in order
    written,      \* number of bytes remove_history_file wrote to History
    \* ---- WebCalculator.evaluate ----
    expression,   \* the expression given to evaluate, as its tokens
    result,       \* what evaluate gave its caller
    history,      \* WebCalculator.history
    calcPc,       \* "call" before evaluate is called, "done" after
    safe,         \* how the call of _safe_eval inside evaluate ended
    \* ---- WebCalculator.constants ----
    constants,    \* self.constants: name -> value
    constLast,    \* the last call: [op, name, exc]
    constCount,   \* number of calls so far
    \* ---- WebCalculator.calculate_statistics ----
    data,         \* the list given to calculate_statistics
    stats,        \* what calculate_statistics returned
    statsPc,      \* "call" before the call, "done" after
    \* ---- WebCalculator.convert_units ----
    units,        \* the caller's inputs: [value, from, to, k]
    converted,    \* convert_units(value, from, to)
    back,         \* convert_units(converted, to, from)
    scaled,       \* convert_units(k * value, from, to)
    unitsPc,      \* the caller's next call
    \* ---- AluminumDatabase ----
    db,           \* the tables of the database file at db_path
    files,        \* what is at each backup path: [kind, tables]
    openConns,    \* the SQLite connections that are open
    dbCalls,      \* add_history_entry calls that executed their statement, per url
    dbLast,       \* the last operation and how it ended
    dbCount,      \* number of operations called so far
    dbArg,        \* the key, url or path given to the last call
    dbRet,        \* what the last call returned
    lastSet,      \* per key, the value of the last update_setting that returned
    lastCached,   \* per url, the content of the last add_to_cache that returned
                  \* since the last clear_cache that returned
    backedUp,     \* per path, the tables at the last backup_database that returned
    \* ---- AluminumBrowserHistory ----
    histDb,       \* the urls rows of <profile>/History
    histCopy,     \* <profile>/History_backup: [exists, rows]
    connection,   \* self.connection: "none", "open" or "closed"
    exportFile,   \* the output file of export_history: [exists, format, records]
    histLast,     \* the last call and what it returned
    cleared,      \* clear_history has returned True
    removed,      \* ids of the rows a delete_history_entry that returned True removed
    histPc,       \* "outside", "inside" or "exited" the with-block
    \* ---- SystemDataCompiler ----
    compPc,       \* the step compile_system_data is at
    posts,        \* number of POST requests sent to API_ENDPOINT
    gets,         \* number of GET requests sent to the IP lookup service
    uploaded,     \* how the upload ended: "", "ok", "failed" or "rejected"
    compLog,      \* the warnings and errors logged, and the closing message
    compRaised    \* the exception compile_system_data let through, "" if none

removerVars == <<pc, historyFile, origHistory, backupFile, related, cacheDir,
                 events, written, osType, runLog>>

calcVars == <<expression, result, history, calcPc, safe>>

unitsVars == <<units, converted, back, scaled, unitsPc>>

statsVars == <<data, stats, statsPc>>

constVars == <<constants, constLast, constCount>>

dbVars == <<db, files, openConns, dbCalls, dbLast, dbCount, dbArg, dbRet,
           lastSet, lastCached, backedUp>>

histVars == <<histDb, histCopy, connection, exportFile, histLast, cleared, removed, histPc>>

compVars == <<compPc, posts, gets, uploaded, compLog, compRaised>>

vars == <<removerVars, calcVars, unitsVars, dbVars, histVars, statsVars, constVars,
          compVars>>

(***************************************************************************)
(* Bounds                                                                  *)
(***************************************************************************)
MaxFileLen == 2
MaxTokens == 5
MaxSafeTokens == 3
MaxData == 4
MaxConstCalls == 3
MaxValue == 2
MaxDbCalls == 3
MaxRows == 3

(***************************************************************************)
(* Files                                                                   *)
(***************************************************************************)
DataByte == {"a", "b"}

RECURSIVE SeqsUpTo(_, _)
SeqsUpTo(S, n) ==
    IF n = 0 THEN {<<>>}
    ELSE LET shorter == SeqsUpTo(S, n - 1)
         IN  shorter \cup {Append(s, x) : s \in {t \in shorter : Len(t) = n - 1}, x \in S}

NoFile == [exists |-> FALSE, data |-> <<>>]
File(d) == [exists |-> TRUE, data |-> d]

Prefixes(d) == {SubSeq(d, 1, k) : k \in 0..Len(d)}

\* os.urandom(n): n bytes, none of them the file's own data
Urandom(n) == [i \in 1..n |-> "r"]

(***************************************************************************)
(* AluminumHistoryRemover                                                  *)
(***************************************************************************)
RelatedPaths == {"History-journal", "Visited Links", "Top Sites",
                 "Shortcuts", "Login Data", "Web Data"}

RemoverInit ==
    /\ pc = "determine_os"
    /\ osType = ""
    /\ runLog = <<"Starting Aluminum history removal process">>
    /\ historyFile \in {NoFile} \cup {File(d) : d \in SeqsUpTo(DataByte, MaxFileLen)}
    /\ origHistory = historyFile
    /\ backupFile = NoFile
    /\ related \in [RelatedPaths -> {"absent", "file", "dir"}]
    /\ cacheDir \in {"absent", "full", "empty"}
    /\ events = <<>>
    /\ written = 0

Ev(step, ok) == [step |-> step, ok |-> ok]

\* A run without its except branch: the exception leaves run.
RunExceptMissing == "raised"

\* run, lines 152-153: an exception that leaves remove_history_atomic is
\* caught and logged as critical
RunExcept == "run_except"

\* determine_os, as remove_history_atomic calls it before its try block:
\* it returns one of the three systems history_locations has a path for
\* ("supported"), or raises OSError for any other os.name
determine_os ==
    /\ pc = "determine_os"
    /\ \E found \in {"supported", "unsupported"} :
         /\ osType' = found
         /\ pc' = IF found = "unsupported" THEN RunExcept ELSE "create_backup"
    /\ UNCHANGED <<historyFile, origHistory, backupFile, related, cacheDir,
                   events, written, runLog>>

\* run, lines 152-153
run_except ==
    /\ pc = "run_except"
    /\ runLog' = Append(runLog, "Critical error during history removal")
    /\ pc' = "run_finally"
    /\ UNCHANGED <<historyFile, origHistory, backupFile, related, cacheDir,
                   events, written, osType>>

\* run, lines 154-155: the finally clause, reached when
\* remove_history_atomic has returned and after the except branch
run_finally ==
    /\ pc \in {"done", "run_finally"}
    /\ runLog' = Append(runLog, "Aluminum history removal process completed")
    /\ pc' = "returned"
    /\ UNCHANGED <<historyFile, origHistory, backupFile, related, cacheDir,
                   events, written, osType>>

\* An except branch that logs and returns without restoring.
ExceptBranchNoRestore == "done"

\* The except branch of remove_history_atomic: log, then restore_backup.
ExceptBranch == "restore_backup"

\* A create_backup that logs its failure without re-raising it.
AfterCreateBackupSwallowed(ok) == "remove_exists"

\* Where remove_history_atomic goes after create_backup: on to step 2, or
\* to the except branch because create_backup re-raised.
AfterCreateBackup(ok) == IF ok THEN "remove_exists" ELSE ExceptBranch

\* Where remove_history_atomic goes after a sub-step of remove_history_file
\* on the History file: remove_history_file re-raises what it caught.
AfterRemoveStep(ok, next) == IF ok THEN next ELSE ExceptBranch

\* clear_related_files, vacuum_database and clear_cache catch and log every
\* exception themselves: remove_history_atomic goes on whatever happened.
AfterSwallowingStep(ok, next) == next

\* open(history_path, "wb"): the file is truncated when it is opened.
OpenWb(f) == File(<<>>)

\* history_path.stat().st_size, read while the file is open for writing.
StatSize(f) == Len(f.data)

\* create_backup: makedirs, then shutil.copy2(history_path, backup_dir).
\* copy2 raises when the source is missing; a copy that fails part way
\* leaves what it had written.
create_backup ==
    /\ pc = "create_backup"
    /\ \E outcome \in {"ok", "makedirs_fails", "copy_fails"} :
         /\ outcome = "ok" => historyFile.exists
         /\ backupFile' \in
              CASE outcome = "ok" -> {File(historyFile.data)}
                [] outcome = "makedirs_fails" -> {NoFile}
                [] OTHER -> {NoFile} \cup
                     (IF historyFile.exists
                      THEN {File(p) : p \in Prefixes(historyFile.data)}
                      ELSE {})
         /\ events' = Append(events, Ev("create_backup", outcome = "ok"))
         /\ pc' = AfterCreateBackup(outcome = "ok")
    /\ UNCHANGED <<historyFile, origHistory, related, cacheDir, written, osType, runLog>>

\* remove_history_file(history_path), line 49: history_path.exists()
remove_exists ==
    /\ pc = "remove_exists"
    /\ pc' = IF historyFile.exists THEN "remove_open" ELSE "clear_related_files"
    /\ UNCHANGED <<historyFile, origHistory, backupFile, related, cacheDir,
                   events, written, osType, runLog>>

\* line 51: open(history_path, "wb")
remove_open ==
    /\ pc = "remove_open"
    /\ \E ok \in BOOLEAN :
         /\ historyFile' = IF ok THEN OpenWb(historyFile) ELSE historyFile
         /\ events' = Append(events, Ev("open", ok))
         /\ pc' = AfterRemoveStep(ok, "remove_write")
    /\ UNCHANGED <<origHistory, backupFile, related, cacheDir, written, osType, runLog>>

\* line 52: f.write(os.urandom(history_path.stat().st_size)).  A write that
\* fails may have put a part of the bytes into the file.
remove_write ==
    /\ pc = "remove_write"
    /\ \E ok \in BOOLEAN :
         LET bytes == Urandom(StatSize(historyFile))
         IN  /\ \E done \in (IF ok THEN {bytes} ELSE Prefixes(bytes)) :
                   /\ historyFile' = File(done)
                   /\ written' = Len(done)
             /\ events' = Append(events, Ev("overwrite", ok))
             /\ pc' = AfterRemoveStep(ok, "remove_delete")
    /\ UNCHANGED <<origHistory, backupFile, related, cacheDir, osType, runLog>>

\* line 53: os.remove(history_path)
remove_delete ==
    /\ pc = "remove_delete"
    /\ \E ok \in BOOLEAN :
         /\ historyFile' = IF ok THEN NoFile ELSE historyFile
         /\ events' = Append(events, Ev("delete", ok))
         /\ pc' = AfterRemoveStep(ok, "clear_related_files")
    /\ UNCHANGED <<origHistory, backupFile, related, cacheDir, written, osType, runLog>>

\* clear_related_files: each related path that is a file goes through
\* remove_history_file, each that is a directory through shutil.rmtree; a
\* path whose removal raises is logged and stays.
clear_related_files ==
    /\ pc = "clear_related_files"
    /\ \E failed \in SUBSET {p \in RelatedPaths : related[p] # "absent"} :
         /\ related' = [p \in RelatedPaths |->
                          IF p \in failed THEN related[p] ELSE "absent"]
         /\ events' = Append(events, Ev("clear_related_files", failed = {}))
         /\ pc' = AfterSwallowingStep(failed = {}, "vacuum_database")
    /\ UNCHANGED <<historyFile, origHistory, backupFile, cacheDir, written, osType, runLog>>

\* vacuum_database(history_path.parent / "Web Data"): sqlite3.connect
\* creates a missing database file and cannot open a directory.
vacuum_database ==
    /\ pc = "vacuum_database"
    /\ \E ok \in BOOLEAN :
         /\ ok => related["Web Data"] # "dir"
         /\ related' = IF ok /\ related["Web Data"] = "absent"
                       THEN [related EXCEPT !["Web Data"] = "file"]
                       ELSE related
         /\ events' = Append(events, Ev("vacuum_database", ok))
         /\ pc' = AfterSwallowingStep(ok, "clear_cache")
    /\ UNCHANGED <<historyFile, origHistory, backupFile, cacheDir, written, osType, runLog>>

\* clear_cache: rmtree then makedirs when the directory exists, a warning
\* when it does not.
clear_cache ==
    /\ pc = "clear_cache"
    /\ \E outcome \in {"ok", "rmtree_fails", "makedirs_fails"} :
         /\ outcome # "ok" => cacheDir # "absent"
         /\ cacheDir' = CASE cacheDir = "absent" -> "absent"
                          [] outcome = "ok" -> "empty"
                          [] outcome = "rmtree_fails" -> cacheDir
                          [] OTHER -> "absent"
         /\ events' = Append(events, Ev("clear_cache", outcome = "ok"))
         /\ pc' = AfterSwallowingStep(outcome = "ok", "done")
    /\ UNCHANGED <<historyFile, origHistory, backupFile, related, written, osType, runLog>>

\* A restore_backup that reports its copy as done and leaves History as
\* it found it.
restore_backupWithoutCopy ==
    /\ pc = "restore_backup"
    /\ \E ok \in BOOLEAN :
         /\ historyFile' = historyFile
         /\ events' = Append(events, Ev("restore_backup", ok))
         /\ pc' = "done"
    /\ UNCHANGED <<origHistory, backupFile, related, cacheDir, written, osType, runLog>>

\* restore_backup: copy the backup over History when the backup exists;
\* every exception is caught and logged.  A copy that fails part way
\* leaves History with what it had written.
restore_backup ==
    /\ pc = "restore_backup"
    /\ \E ok \in BOOLEAN :
         /\ historyFile' \in
              CASE ~backupFile.exists -> {historyFile}
                [] ok -> {File(backupFile.data)}
                [] OTHER -> {historyFile} \cup
                            {File(p) : p \in Prefixes(backupFile.data)}
         /\ events' = Append(events, Ev("restore_backup", ok))
         /\ pc' = "done"
    /\ UNCHANGED <<origHistory, backupFile, related, cacheDir, written, osType, runLog>>

(***************************************************************************)
(* Exact arithmetic.  The calculator computes in Python floats; the model  *)
(* computes the same operations on fractions <<numerator, denominator>>    *)
(* in lowest terms, so rounding is not represented.                        *)
(***************************************************************************)
Abs(n) == IF n < 0 THEN -n ELSE n

RECURSIVE Gcd(_, _)
Gcd(a, b) == IF b = 0 THEN a ELSE Gcd(b, a % b)

Norm(n, d) ==
    LET g == Gcd(Abs(n), Abs(d))
        sgn == IF d < 0 THEN -1 ELSE 1
    IN  <<sgn * (n \div g), sgn * (d \div g)>>

Rat(n) == <<n, 1>>
RatAdd(a, b) == Norm(a[1] * b[2] + b[1] * a[2], a[2] * b[2])
RatNeg(a) == <<-a[1], a[2]>>
RatSub(a, b) == RatAdd(a, RatNeg(b))
\* cancel across before multiplying, so that the products stay small
RatMul(a, b) ==
    LET g1 == Gcd(Abs(a[1]), b[2])
        g2 == Gcd(Abs(b[1]), a[2])
    IN  IF a[1] = 0 \/ b[1] = 0 THEN <<0, 1>>
        ELSE <<(a[1] \div g1) * (b[1] \div g2), (a[2] \div g2) * (b[2] \div g1)>>
RatInv(a) == Norm(a[2], a[1])
RatDiv(a, b) == RatMul(a, RatInv(b))

RECURSIVE IntPow(_, _)
IntPow(a, n) == IF n = 0 THEN <<1, 1>> ELSE RatMul(a, IntPow(a, n - 1))

\* A float the model does not compute (a power with a fractional exponent).
Opaque == <<0, 0>>

(***************************************************************************)
(* WebCalculator: the tokens, _infix_to_rpn, _evaluate_rpn, evaluate       *)
(***************************************************************************)
\* the number tokens the inputs are drawn from
Numerals == {"0", "1", "2"}

\* float(token)
NumVal(token) ==
    CASE token = "0" -> Rat(0)
      [] token = "1" -> Rat(1)
      [] OTHER -> Rat(2)

\* token.replace('.', '').isdigit()
IsNumber(token) == token \in Numerals

SupportedFunctions ==
    {"sin", "cos", "tan", "asin", "acos", "atan", "sinh", "cosh", "tanh",
     "log", "log10", "exp", "sqrt", "abs", "ceil", "floor", "round",
     "factorial", "degrees", "radians"}

Operators == {"+", "-", "*", "/", "^"}

\* Every operator on one level.
PrecedenceFlat == [op \in Operators |-> 1]

Precedence == [op \in Operators |->
                 CASE op \in {"+", "-"} -> 1
                   [] op \in {"*", "/"} -> 2
                   [] OTHER -> 3]

\* precedence.get(operators[-1], 0)
PrecedenceGet(token) == IF token \in Operators THEN Precedence[token] ELSE 0

Last(q) == q[Len(q)]
Front(q) == SubSeq(q, 1, Len(q) - 1)

Returned(v) == [raised |-> FALSE, exc |-> "", msg |-> "", val |-> v]
Raised(exc, msg) == [raised |-> TRUE, exc |-> exc, msg |-> msg, val |-> <<>>]

\* lines 100-101: pop operators to the output until a "(" is on top
RECURSIVE PopToParen(_, _)
PopToParen(output, operators) ==
    IF operators # <<>> /\ Last(operators) # "("
    THEN PopToParen(Append(output, Last(operators)), Front(operators))
    ELSE <<output, operators>>

\* lines 104-106: pop the operators that bind at least as tightly as token
RECURSIVE PopNotLower(_, _, _)
PopNotLower(output, operators, token) ==
    IF /\ operators # <<>>
       /\ Last(operators) # "("
       /\ PrecedenceGet(Last(operators)) >= Precedence[token]
    THEN PopNotLower(Append(output, Last(operators)), Front(operators), token)
    ELSE <<output, operators>>

\* lines 109-110: pop whatever is left, parentheses included
RECURSIVE PopAll(_, _)
PopAll(output, operators) ==
    IF operators # <<>>
    THEN PopAll(Append(output, Last(operators)), Front(operators))
    ELSE output

\* _infix_to_rpn from token i on; a token no branch matches is skipped
RECURSIVE InfixLoop(_, _, _, _)
InfixLoop(tokens, i, output, operators) ==
    IF i > Len(tokens) THEN Returned(PopAll(output, operators))
    ELSE LET token == tokens[i] IN
         CASE IsNumber(token) ->
                InfixLoop(tokens, i + 1, Append(output, token), operators)
           [] token \in SupportedFunctions \/ token = "(" ->
                InfixLoop(tokens, i + 1, output, Append(operators, token))
           [] token = ")" ->
                LET popped == PopToParen(output, operators) IN
                IF popped[2] = <<>>
                THEN Raised("IndexError", "pop from empty list")
                ELSE InfixLoop(tokens, i + 1, popped[1], Front(popped[2]))
           [] token \in Operators ->
                LET popped == PopNotLower(output, operators, token) IN
                InfixLoop(tokens, i + 1, popped[1], Append(popped[2], token))
           [] OTHER -> InfixLoop(tokens, i + 1, output, operators)

InfixToRpn(tokens) == InfixLoop(tokens, 1, <<>>, <<>>)

\* a ** b on floats
Power(a, b) ==
    CASE a = Opaque \/ b = Opaque \/ b[2] # 1 -> Returned(Opaque)
      [] b[1] >= 0 -> Returned(IntPow(a, b[1]))
      [] a[1] = 0 ->
           Raised("ZeroDivisionError", "0.0 cannot be raised to a negative power")
      [] OTHER -> Returned(IntPow(RatInv(a), -b[1]))

\* A division that does not look at its divisor first: the float division
\* itself then raises.
ApplyOperatorUnchecked(token, a, b) ==
    CASE token = "/" /\ b = Rat(0) ->
           Raised("ZeroDivisionError", "float division by zero")
      [] token = "^" -> Power(a, b)
      [] a = Opaque \/ b = Opaque -> Returned(Opaque)
      [] token = "+" -> Returned(RatAdd(a, b))
      [] token = "-" -> Returned(RatSub(a, b))
      [] token = "*" -> Returned(RatMul(a, b))
      [] OTHER -> Returned(RatDiv(a, b))

\* lines 138-149
ApplyOperator(token, a, b) ==
    CASE token = "/" /\ b = Rat(0) -> Raised("ValueError", "Division by zero")
      [] token = "^" -> Power(a, b)
      [] a = Opaque \/ b = Opaque -> Returned(Opaque)
      [] token = "+" -> Returned(RatAdd(a, b))
      [] token = "-" -> Returned(RatSub(a, b))
      [] token = "*" -> Returned(RatMul(a, b))
      [] OTHER -> Returned(RatDiv(a, b))

\* _get_function_args and _apply_function; "log" takes two arguments.  The
\* functions with a rational value are computed, the others give a float
\* the model does not compute.
ApplyFunction(func, stack) ==
    LET count == IF func = "log" THEN 2 ELSE 1 IN
    IF Len(stack) < count
    THEN Raised("ValueError", "Not enough arguments for " \o func)
    ELSE LET x == Last(stack)
             rest == SubSeq(stack, 1, Len(stack) - count)
         IN  CASE func = "abs" /\ x # Opaque ->
                    Returned(Append(rest, <<Abs(x[1]), x[2]>>))
               [] OTHER -> Returned(Append(rest, Opaque))

\* _evaluate_rpn from token i on
RECURSIVE RpnLoop(_, _, _)
RpnLoop(rpn, i, stack) ==
    IF i > Len(rpn)
    THEN IF Len(stack) # 1
         THEN Raised("ValueError", "Invalid expression")
         ELSE Returned(stack[1])
    ELSE LET token == rpn[i] IN
         CASE IsNumber(token) -> RpnLoop(rpn, i + 1, Append(stack, NumVal(token)))
           [] token \in SupportedFunctions ->
                LET r == ApplyFunction(token, stack) IN
                IF r.raised THEN r ELSE RpnLoop(rpn, i + 1, r.val)
           [] token \in Operators ->
                IF Len(stack) < 2
                THEN Raised("IndexError", "pop from empty list")
                ELSE LET b == stack[Len(stack)]
                         a == stack[Len(stack) - 1]
                         r == ApplyOperator(token, a, b)
                     IN  IF r.raised THEN r
                         ELSE RpnLoop(rpn, i + 1,
                                      Append(SubSeq(stack, 1, Len(stack) - 2), r.val))
           [] OTHER -> RpnLoop(rpn, i + 1, stack)

EvaluateRpn(rpn) == RpnLoop(rpn, 1, <<>>)

\* _safe_eval on the tokens of the expression
SafeEval(tokens) ==
    LET rpn == InfixToRpn(tokens) IN
    IF rpn.raised THEN rpn ELSE EvaluateRpn(rpn.val)

\* what evaluate hands to its caller
NoResult == [kind |-> "none", val |-> <<0, 1>>, msg |-> ""]
Number(v) == [kind |-> "number", val |-> v, msg |-> ""]
ErrorString(msg) == [kind |-> "string", val |-> <<0, 1>>, msg |-> msg]
Propagated(msg) == [kind |-> "raised", val |-> <<0, 1>>, msg |-> msg]

\* line 47: return f"Error: {str(e)}"
ErrorPrefix == "Error: "

\* the tokens the expressions are drawn from
Alphabet == Numerals \cup Operators \cup {"(", ")"}

\* the tokens with names among them: a supported function and a name that
\* is none
Names == {"abs", "x"}
NamedAlphabet == Alphabet \cup Names

NotEvaluated == [raised |-> FALSE, exc |-> "", msg |-> "not evaluated", val |-> <<>>]

CalcInit ==
    /\ \E n \in 0..MaxTokens : expression \in [1..n -> Alphabet]
    /\ result = NoResult
    /\ history = <<>>
    /\ calcPc = "call"
    /\ safe = NotEvaluated

\* shorter expressions over the larger alphabet
SafeEvalInit ==
    /\ \E n \in 0..MaxSafeTokens : expression \in [1..n -> NamedAlphabet]
    /\ result = NoResult
    /\ history = <<>>
    /\ calcPc = "call"
    /\ safe = NotEvaluated

\* the expressions "f(x) op y": a supported function on one number, then
\* a binary operator and a second number
FuncCallInit ==
    /\ \E f \in SupportedFunctions, x \in Numerals, op \in Operators, y \in Numerals :
          expression = <<f, "(", x, ")", op, y>>
    /\ result = NoResult
    /\ history = <<>>
    /\ calcPc = "call"
    /\ safe = NotEvaluated

CalcIdle ==
    /\ expression = <<>>
    /\ result = NoResult
    /\ history = <<>>
    /\ calcPc = "idle"
    /\ safe = NotEvaluated

\* evaluate(expression).  None of the tokens holds the name of a constant,
\* so the replacement of constants leaves the expression as it is.
\* An evaluate that records the expression before it evaluates it.
evaluateRecordsFirst ==
    /\ calcPc = "call"
    /\ LET r == SafeEval(expression) IN
       /\ safe' = r
       /\ history' = Append(history, <<expression, r.val>>)
       /\ result' = IF r.raised THEN ErrorString(ErrorPrefix \o r.msg)
                    ELSE Number(r.val)
    /\ calcPc' = "done"
    /\ UNCHANGED expression

evaluate ==
    /\ calcPc = "call"
    /\ LET r == SafeEval(expression) IN
       /\ safe' = r
       /\ IF r.raised
          THEN /\ result' = ErrorString(ErrorPrefix \o r.msg)
               /\ history' = history
          ELSE /\ result' = Number(r.val)
               /\ history' = Append(history, <<expression, r.val>>)
    /\ calcPc' = "done"
    /\ UNCHANGED expression


(***************************************************************************)
(* WebCalculator.convert_units.  The conversion multiplies and divides by  *)
(* decimal literals with up to twelve digits after the point; to keep the  *)
(* fractions exact within machine integers the model writes a number as    *)
(* <<n, d, a, b>>, meaning (n / d) * 2^a * 5^b with n and d coprime to     *)
(* each other and to 10, d > 0.                                            *)
(***************************************************************************)
RECURSIVE Strip(_, _)
\* n without its factors p (n not 0)
Strip(n, p) == IF n % p = 0 THEN Strip(n \div p, p) ELSE n

RECURSIVE Mult(_, _)
\* how often p divides n (n not 0)
Mult(n, p) == IF n % p = 0 THEN 1 + Mult(n \div p, p) ELSE 0

SciNorm(n, d, a, b) ==
    IF n = 0 THEN <<0, 1, 0, 0>>
    ELSE LET sgn == IF (n < 0) = (d < 0) THEN 1 ELSE -1
             n1 == Strip(Strip(Abs(n), 2), 5)
             d1 == Strip(Strip(Abs(d), 2), 5)
             g == Gcd(n1, d1)
         IN  <<sgn * (n1 \div g), d1 \div g,
               a + Mult(Abs(n), 2) - Mult(Abs(d), 2),
               b + Mult(Abs(n), 5) - Mult(Abs(d), 5)>>

\* the literal n / d
Dec(n, d) == SciNorm(n, d, 0, 0)

SciMul(x, y) ==
    IF x[1] = 0 \/ y[1] = 0 THEN <<0, 1, 0, 0>>
    ELSE LET g1 == Gcd(Abs(x[1]), y[2])
             g2 == Gcd(Abs(y[1]), x[2])
         IN  <<(x[1] \div g1) * (y[1] \div g2), (x[2] \div g2) * (y[2] \div g1),
               x[3] + y[3], x[4] + y[4]>>

\* x / y, y not 0
SciDiv(x, y) ==
    SciMul(x, <<(IF y[1] < 0 THEN -1 ELSE 1) * y[2], Abs(y[1]), -y[3], -y[4]>>)

length_units ==
    "m" :> Dec(1, 1) @@ "km" :> Dec(1000, 1) @@ "cm" :> Dec(1, 100) @@
    "mm" :> Dec(1, 1000) @@ "in" :> Dec(254, 10000) @@
    "ft" :> Dec(3048, 10000) @@ "yd" :> Dec(9144, 10000) @@
    "mi" :> Dec(1609344, 1000)

\* 0.028349523125 = 45359237 / 1600000000
weight_units ==
    "kg" :> Dec(1, 1) @@ "g" :> Dec(1, 1000) @@ "mg" :> Dec(1, 1000000) @@
    "lb" :> Dec(45359237, 100000000) @@ "oz" :> Dec(45359237, 1600000000)

volume_units ==
    "l" :> Dec(1, 1) @@ "ml" :> Dec(1, 1000) @@ "gal" :> Dec(378541, 100000) @@
    "qt" :> Dec(946353, 1000000) @@ "pt" :> Dec(473176, 1000000) @@
    "cup" :> Dec(236588, 1000000) @@ "floz" :> Dec(295735, 10000000)

\* A conversion that leaves the value in the base unit.
FromBaseUndivided(base_value, factor) == base_value

\* line 372: base_value = value * category[from_unit]
ToBase(value, factor) == SciMul(value, factor)

\* line 373: converted_value = base_value / category[to_unit]
FromBase(base_value, factor) == SciDiv(base_value, factor)

\* lines 362-369: the category both units belong to, if there is one
Category(from_unit, to_unit) ==
    CASE from_unit \in DOMAIN length_units /\ to_unit \in DOMAIN length_units ->
           <<length_units>>
      [] from_unit \in DOMAIN weight_units /\ to_unit \in DOMAIN weight_units ->
           <<weight_units>>
      [] from_unit \in DOMAIN volume_units /\ to_unit \in DOMAIN volume_units ->
           <<volume_units>>
      [] OTHER -> <<>>

\* convert_units without the else branch of line 369
ConvertUnitsUnchecked(value, from_unit, to_unit) ==
    LET found == Category(from_unit, to_unit) IN
    IF found = <<>>
    THEN Returned(value)
    ELSE LET category == found[1] IN
         Returned(FromBase(ToBase(value, category[from_unit]), category[to_unit]))

\* lines 333-375: convert_units
ConvertUnits(value, from_unit, to_unit) ==
    LET found == Category(from_unit, to_unit) IN
    IF found = <<>>
    THEN Raised("ValueError", "Unsupported or incompatible units")
    ELSE LET category == found[1] IN
         Returned(FromBase(ToBase(value, category[from_unit]), category[to_unit]))

\* the units the inputs are drawn from: every unit of the tables and one
\* that is in none of them
UnitNames ==
    DOMAIN length_units \cup DOMAIN weight_units \cup DOMAIN volume_units
       \cup {"furlong"}

NotCalled == [raised |-> FALSE, exc |-> "", msg |-> "not called", val |-> <<>>]

UnitsInit ==
    /\ units \in [value : {Dec(n, d) : n \in -MaxValue..MaxValue, d \in {1, 2}},
                  from : UnitNames, to : UnitNames,
                  k : {Dec(n, 1) : n \in -1..MaxValue}]
    /\ converted = NotCalled
    /\ back = NotCalled
    /\ scaled = NotCalled
    /\ unitsPc = "convert"

UnitsIdle ==
    /\ units = [value |-> Dec(0, 1), from |-> "m", to |-> "m", k |-> Dec(0, 1)]
    /\ converted = NotCalled
    /\ back = NotCalled
    /\ scaled = NotCalled
    /\ unitsPc = "idle"

\* convert_units(value, from, to); a caller that gets the ValueError stops
convert ==
    /\ unitsPc = "convert"
    /\ converted' = ConvertUnits(units.value, units.from, units.to)
    /\ unitsPc' = IF converted'.raised THEN "done" ELSE "convert_back"
    /\ UNCHANGED <<units, back, scaled>>

\* convert_units(converted, to, from)
convert_back ==
    /\ unitsPc = "convert_back"
    /\ back' = ConvertUnits(converted.val, units.to, units.from)
    /\ unitsPc' = "convert_scaled"
    /\ UNCHANGED <<units, converted, scaled>>

\* convert_units(k * value, from, to)
convert_scaled ==
    /\ unitsPc = "convert_scaled"
    /\ scaled' = ConvertUnits(SciMul(units.k, units.value), units.from, units.to)
    /\ unitsPc' = "done"
    /\ UNCHANGED <<units, converted, back>>

(***************************************************************************)
(* WebCalculator.add_custom_constant and remove_custom_constant.  A name   *)
(* is the sequence of its characters, a value the text of its literal.     *)
(***************************************************************************)
Letters == {"a", "c", "e", "g", "h", "i", "p", "t", "u"}

\* lines 19-25: the constants __init__ sets
BuiltIn ==
    <<"p", "i">> :> "math.pi" @@ <<"e">> :> "math.e" @@
    <<"p", "h", "i">> :> "(1 + math.sqrt(5)) / 2" @@
    <<"c">> :> "299792458" @@ <<"g">> :> "9.80665"

\* the names and values the calls are made with: the built-in names, two
\* other alphabetic names, one with a digit, and the empty name
ConstNames == DOMAIN BuiltIn \cup {<<"t">>, <<"t", "a", "u">>, <<"t", "2">>, <<>>}
ConstValues == {"1.5", "2.5"}

\* str.isalpha: at least one character, and every character a letter
IsAlpha(name) == Len(name) > 0 /\ \A i \in 1..Len(name) : name[i] \in Letters

\* A remove_custom_constant that protects two of the names only.
ProtectedNamesShort == {<<"p", "i">>, <<"e">>}

\* line 320: the names remove_custom_constant refuses to remove
ProtectedNames == {<<"p", "i">>, <<"e">>, <<"p", "h", "i">>, <<"c">>, <<"g">>}

ConstCall(op, name, exc) == [op |-> op, name |-> name, exc |-> exc]

ConstInit ==
    /\ constants = BuiltIn
    /\ constLast = ConstCall("__init__", <<>>, "")
    /\ constCount = 0

ConstIdle ==
    /\ constants = BuiltIn
    /\ constLast = ConstCall("idle", <<>>, "")
    /\ constCount = 0

add_custom_constant ==
    \E name \in ConstNames, value \in ConstValues :
       /\ constCount < MaxConstCalls
       /\ constCount' = constCount + 1
       /\ IF ~IsAlpha(name) \/ name \in DOMAIN constants
          THEN /\ constLast' = ConstCall("add_custom_constant", name, "ValueError")
               /\ constants' = constants
          ELSE /\ constLast' = ConstCall("add_custom_constant", name, "")
               /\ constants' = (name :> value) @@ constants

remove_custom_constant ==
    \E name \in ConstNames :
       /\ constCount < MaxConstCalls
       /\ constCount' = constCount + 1
       /\ IF name \notin DOMAIN constants \/ name \in ProtectedNames
          THEN /\ constLast' = ConstCall("remove_custom_constant", name, "ValueError")
               /\ constants' = constants
          ELSE /\ constLast' = ConstCall("remove_custom_constant", name, "")
               /\ constants' = [n \in DOMAIN constants \ {name} |-> constants[n]]

(***************************************************************************)
(* SystemDataCompiler.compile_system_data, one action per step it calls.   *)
(* What a step finds on the machine (a library that is not installed, a    *)
(* request that fails, a counter the platform does not have) is chosen     *)
(* freely.                                                                 *)
(***************************************************************************)
CompInit ==
    /\ compPc = "_ensure_data_directory"
    /\ posts = 0
    /\ gets = 0
    /\ uploaded = ""
    /\ compLog = <<>>
    /\ compRaised = ""

CompIdle ==
    /\ compPc = "idle"
    /\ posts = 0
    /\ gets = 0
    /\ uploaded = ""
    /\ compLog = <<>>
    /\ compRaised = ""

\* a step that lets an exception through ends compile_system_data
Propagate(exc) ==
    /\ compPc' = "raised"
    /\ compRaised' = exc

\* An upload that is tried again after a failure.
AfterUploadRetrying(outcome) == IF outcome = "ok" THEN "done" ELSE "_upload_to_server"

\* lines 305-310: whatever the outcome of the POST, _upload_to_server
\* returns and compile_system_data goes on to its last line
AfterUpload(outcome) == "done"

\* os.makedirs(DATA_DIR, exist_ok=True)
ensure_data_directory ==
    /\ compPc = "_ensure_data_directory"
    /\ \E ok \in BOOLEAN :
          IF ok THEN compPc' = "_initialize_database" /\ compRaised' = compRaised
          ELSE Propagate("OSError")
    /\ UNCHANGED <<posts, gets, uploaded, compLog>>

\* an sqlite3.Error is logged and followed by sys.exit(1)
initialize_database ==
    /\ compPc = "_initialize_database"
    /\ \E ok \in BOOLEAN :
          IF ok
          THEN /\ compPc' = "_collect_hardware_info"
               /\ UNCHANGED <<compRaised, compLog>>
          ELSE /\ Propagate("SystemExit")
               /\ compLog' = Append(compLog, "Error initializing database")
    /\ UNCHANGED <<posts, gets, uploaded>>

\* psutil.cpu_freq() is None where the platform has no such counter;
\* _get_gpu_info catches what it meets
collect_hardware_info ==
    /\ compPc = "_collect_hardware_info"
    /\ \E gpu \in {"found", "ImportError", "Exception"}, freq \in BOOLEAN :
          IF ~freq
          THEN Propagate("AttributeError") /\ compLog' = compLog
          ELSE /\ compPc' = "_collect_os_info"
               /\ compRaised' = compRaised
               /\ compLog' =
                     CASE gpu = "ImportError" ->
                            Append(compLog, "GPUtil not installed")
                       [] gpu = "Exception" ->
                            Append(compLog, "Error retrieving GPU information")
                       [] OTHER -> compLog
    /\ UNCHANGED <<posts, gets, uploaded>>

collect_os_info ==
    /\ compPc = "_collect_os_info"
    /\ compPc' = "_collect_network_info"
    /\ UNCHANGED <<posts, gets, uploaded, compLog, compRaised>>

\* _get_ip_address: one GET; a RequestException gives "Unknown"
collect_network_info ==
    /\ compPc = "_collect_network_info"
    /\ gets' = gets + 1
    /\ \E ok \in BOOLEAN :
          compLog' = IF ok THEN compLog
                     ELSE Append(compLog, "Failed to retrieve public IP address")
    /\ compPc' = "_collect_browser_info"
    /\ UNCHANGED <<posts, uploaded, compRaised>>

collect_browser_info ==
    /\ compPc = "_collect_browser_info"
    /\ compPc' = "_collect_performance_metrics"
    /\ UNCHANGED <<posts, gets, uploaded, compLog, compRaised>>

\* psutil.disk_io_counters() is None on a machine without disks;
\* _get_battery_info catches the AttributeError of sensors_battery
collect_performance_metrics ==
    /\ compPc = "_collect_performance_metrics"
    /\ \E disks \in BOOLEAN, battery \in {"found", "none", "AttributeError"} :
          IF ~disks
          THEN Propagate("AttributeError") /\ compLog' = compLog
          ELSE /\ compPc' = "_save_to_database"
               /\ compRaised' = compRaised
               /\ compLog' = IF battery = "AttributeError"
                             THEN Append(compLog, "Battery information not available")
                             ELSE compLog
    /\ UNCHANGED <<posts, gets, uploaded>>

\* an sqlite3.Error is logged and the run goes on
save_to_database ==
    /\ compPc = "_save_to_database"
    /\ \E ok \in BOOLEAN :
          compLog' = IF ok THEN compLog
                     ELSE Append(compLog, "Error saving data to database")
    /\ compPc' = "_upload_to_server"
    /\ UNCHANGED <<posts, gets, uploaded, compRaised>>

\* requests.post, then raise_for_status: the request fails (a
\* ConnectionError or Timeout), is rejected (an HTTPError), or is accepted
upload_to_server ==
    /\ compPc = "_upload_to_server"
    /\ posts' = posts + 1
    /\ \E outcome \in {"ok", "failed", "rejected"} :
          /\ uploaded' = outcome
          /\ compLog' = IF outcome = "ok" THEN compLog
                        ELSE Append(compLog, "Error uploading data to server")
          /\ compPc' = AfterUpload(outcome)
    /\ UNCHANGED <<gets, compRaised>>

\* line 46
compile_completed ==
    /\ compPc = "done"
    /\ compLog' = Append(compLog, "System data compilation completed successfully.")
    /\ compPc' = "returned"
    /\ UNCHANGED <<posts, gets, uploaded, compRaised>>

(***************************************************************************)
(* WebCalculator.calculate_statistics.  A returned value is written        *)
(* [kind, items]: a dict with its items, or None.                          *)
(***************************************************************************)
DataValues == {0, 1, 2}

PyNone == [kind |-> "None", items |-> <<>>]
Dict(items) == [kind |-> "dict", items |-> items]

\* a value of the dict: a number or None
Num(n) == [none |-> FALSE, num |-> n]
NoneValue == [none |-> TRUE, num |-> 0]

\* lines 441-450: the dict returned for the empty list
EmptyStatistics ==
    [key \in {"count", "sum", "mean", "median", "mode", "range", "variance",
              "std_dev"} |->
       IF key \in {"count", "sum"} THEN Num(0) ELSE NoneValue]

\* lines 439-454: for a list that is not empty the body computes
\* sorted_data, sum_data and mean and ends there, with no return statement
CalculateStatistics(list) ==
    IF Len(list) = 0 THEN Dict(EmptyStatistics) ELSE PyNone

StatsInit ==
    /\ \E n \in 0..MaxData : data \in [1..n -> DataValues]
    /\ stats = PyNone
    /\ statsPc = "call"

StatsIdle ==
    /\ data = <<>>
    /\ stats = PyNone
    /\ statsPc = "idle"

calculate_statistics ==
    /\ statsPc = "call"
    /\ stats' = CalculateStatistics(data)
    /\ statsPc' = "done"
    /\ UNCHANGED data

(***************************************************************************)
(* AluminumDatabase.  One action is one call of a method, from the opening *)
(* of its connection to its return or its exception.                       *)
(***************************************************************************)
Urls == {"u1", "u2"}
Titles == {"t1"}
SettingKeys == {"k1", "k2"}
SettingValues == {"v1", "v2"}
Contents == {"c1", "c2"}
BackupPaths == {"p1", "p2"}

\* create_tables on a new file: four empty tables
EmptyTables == [history |-> <<>>, bookmarks |-> <<>>, settings |-> {}, cache |-> {}]

\* lines 54-60: the columns of history under a PRIMARY KEY or UNIQUE
\* constraint
HistoryUniqueColumns == {"id"}

Absent == [kind |-> "absent", tables |-> EmptyTables]
OtherFile == [kind |-> "other", tables |-> EmptyTables]
DbFile(t) == [kind |-> "db", tables |-> t]

Outcome(op, exc) == [op |-> op, exc |-> exc]

\* INSERT INTO history (url, title) VALUES (?, ?) ON CONFLICT(url) DO UPDATE
\* SET visit_count = visit_count + 1: SQLite refuses a conflict target that
\* is no PRIMARY KEY or UNIQUE constraint when it prepares the statement.
UpsertHistory(rows, url, title) ==
    IF "url" \notin HistoryUniqueColumns
    THEN Raised("OperationalError",
                "ON CONFLICT clause does not match any PRIMARY KEY or UNIQUE constraint")
    ELSE IF \E i \in 1..Len(rows) : rows[i].url = url
         THEN Returned([i \in 1..Len(rows) |->
                          IF rows[i].url = url
                          THEN [rows[i] EXCEPT !.visit_count = @ + 1]
                          ELSE rows[i]])
         ELSE Returned(Append(rows, [id |-> Len(rows) + 1, url |-> url,
                                        title |-> title, visit_count |-> 1]))

\* get_connection: a connect that fails leaves conn unbound, and the
\* finally clause's "if conn" raises in its turn; no connection is open.
ConnectFails == "UnboundLocalError"

\* What a method leaves open: get_connection closes conn in its finally
\* clause; backup_conn is closed by the statement after the backup only.
LeftOpen(opened, backupDone) ==
    IF "backup_conn" \in opened /\ ~backupDone THEN {"backup_conn"} ELSE {}

DbInit ==
    /\ db = EmptyTables
    /\ files \in [BackupPaths -> {Absent, OtherFile}]
    /\ openConns = {}
    /\ dbCalls = [u \in Urls |-> 0]
    /\ dbLast = Outcome("create_tables", "")
    /\ dbCount = 0
    /\ dbArg = ""
    /\ dbRet = "None"
    /\ lastSet = [k \in SettingKeys |-> "None"]
    /\ lastCached = [u \in Urls |-> "None"]
    /\ backedUp = [p \in BackupPaths |-> EmptyTables]

DbIdle ==
    /\ db = EmptyTables
    /\ files = [p \in BackupPaths |-> Absent]
    /\ openConns = {}
    /\ dbCalls = [u \in Urls |-> 0]
    /\ dbLast = Outcome("idle", "")
    /\ dbCount = 0
    /\ dbArg = ""
    /\ dbRet = "None"
    /\ lastSet = [k \in SettingKeys |-> "None"]
    /\ lastCached = [u \in Urls |-> "None"]
    /\ backedUp = [p \in BackupPaths |-> EmptyTables]

\* the part every call shares
DbCall(op, exc, opened, backupDone) ==
    /\ dbCount < MaxDbCalls
    /\ dbCount' = dbCount + 1
    /\ dbLast' = Outcome(op, exc)
    /\ openConns' = openConns \cup LeftOpen(opened, backupDone)

\* the argument of the call and the value it returns
DbReturn(arg, ret) ==
    /\ dbArg' = arg
    /\ dbRet' = ret

\* An insert that leaves the row of an existing key as it is.
InsertOrIgnore(table, key, value) ==
    IF \E row \in table : row[1] = key THEN table
    ELSE table \cup {<<key, value>>}

\* INSERT OR REPLACE INTO a table whose first column is the PRIMARY KEY
InsertOrReplace(table, key, value) ==
    {row \in table : row[1] # key} \cup {<<key, value>>}

\* SELECT ... WHERE key = ? and fetchone(): the value, or None
SelectOne(table, key) ==
    IF \E row \in table : row[1] = key
    THEN (CHOOSE row \in table : row[1] = key)[2]
    ELSE "None"

\* A DELETE that removes nothing.
DeleteNothing(table) == table

\* DELETE FROM table
DeleteFrom(table) == {}

\* A copy that keeps the settings the target has and the source has not.
BackupKeepingTarget(source, target) ==
    [source EXCEPT !.settings =
        @ \cup {row \in target.settings :
                  \A other \in source.settings : other[1] # row[1]}]

\* sqlite3.Connection.backup: the target gets the content of the source
Backup(source, target) == source

add_history_entry ==
    \E url \in Urls, title \in Titles, connected \in BOOLEAN :
       LET r == UpsertHistory(db.history, url, title) IN
       /\ DbCall("add_history_entry",
                 IF ~connected THEN ConnectFails ELSE r.exc,
                 IF connected THEN {"conn"} ELSE {}, FALSE)
       /\ DbReturn(url, "None")
       /\ dbCalls' = IF connected THEN [dbCalls EXCEPT ![url] = @ + 1] ELSE dbCalls
       /\ db' = IF connected /\ ~r.raised
                THEN [db EXCEPT !.history = r.val]
                ELSE db
       /\ UNCHANGED <<files, lastSet, lastCached, backedUp>>

add_bookmark ==
    \E url \in Urls, title \in Titles, outcome \in {"ok", "connect", "execute"} :
       /\ DbCall("add_bookmark",
                 CASE outcome = "ok" -> ""
                   [] outcome = "connect" -> ConnectFails
                   [] OTHER -> "OperationalError",
                 IF outcome = "connect" THEN {} ELSE {"conn"}, FALSE)
       /\ db' = IF outcome = "ok"
                THEN [db EXCEPT !.bookmarks =
                        Append(@, [id |-> Len(@) + 1, url |-> url,
                                   title |-> title, folder |-> "root"])]
                ELSE db
       /\ DbReturn(url, "None")
       /\ UNCHANGED <<files, dbCalls, lastSet, lastCached, backedUp>>

\* INSERT OR REPLACE INTO settings (key, value)
update_setting ==
    \E key \in SettingKeys, value \in SettingValues, ok \in BOOLEAN :
       /\ DbCall("update_setting", IF ok THEN "" ELSE "OperationalError",
                 {"conn"}, FALSE)
       /\ DbReturn(key, "None")
       /\ db' = IF ok
                THEN [db EXCEPT !.settings = InsertOrReplace(@, key, value)]
                ELSE db
       /\ lastSet' = IF ok THEN [lastSet EXCEPT ![key] = value] ELSE lastSet
       /\ UNCHANGED <<files, dbCalls, lastCached, backedUp>>

\* SELECT value FROM settings WHERE key = ?
get_setting ==
    \E key \in SettingKeys, ok \in BOOLEAN :
       /\ DbCall("get_setting", IF ok THEN "" ELSE "OperationalError",
                 {"conn"}, FALSE)
       /\ DbReturn(key, IF ok THEN SelectOne(db.settings, key) ELSE "None")
       /\ UNCHANGED <<db, files, dbCalls, lastSet, lastCached, backedUp>>

\* INSERT OR REPLACE INTO cache (url, content, last_updated)
add_to_cache ==
    \E url \in Urls, content \in Contents, ok \in BOOLEAN :
       /\ DbCall("add_to_cache", IF ok THEN "" ELSE "OperationalError",
                 {"conn"}, FALSE)
       /\ DbReturn(url, "None")
       /\ db' = IF ok
                THEN [db EXCEPT !.cache = InsertOrReplace(@, url, content)]
                ELSE db
       /\ lastCached' = IF ok THEN [lastCached EXCEPT ![url] = content]
                        ELSE lastCached
       /\ UNCHANGED <<files, dbCalls, lastSet, backedUp>>

\* SELECT content FROM cache WHERE url = ?
get_from_cache ==
    \E url \in Urls, ok \in BOOLEAN :
       /\ DbCall("get_from_cache", IF ok THEN "" ELSE "OperationalError",
                 {"conn"}, FALSE)
       /\ DbReturn(url, IF ok THEN SelectOne(db.cache, url) ELSE "None")
       /\ UNCHANGED <<db, files, dbCalls, lastSet, lastCached, backedUp>>

\* DELETE FROM cache
db_clear_cache ==
    \E ok \in BOOLEAN :
       /\ DbCall("clear_cache", IF ok THEN "" ELSE "OperationalError",
                 {"conn"}, FALSE)
       /\ DbReturn("", "None")
       /\ db' = IF ok THEN [db EXCEPT !.cache = DeleteFrom(@)] ELSE db
       /\ lastCached' = IF ok THEN [u \in Urls |-> "None"] ELSE lastCached
       /\ UNCHANGED <<files, dbCalls, lastSet, backedUp>>

\* backup_database(path): conn, then backup_conn = sqlite3.connect(path),
\* conn.backup(backup_conn), backup_conn.close().  Connecting to a file
\* that is no database succeeds; the backup into it raises DatabaseError.
backup_database ==
    \E path \in BackupPaths, outcome \in {"ok", "connect", "connect_backup", "backup"} :
       /\ outcome = "ok" => files[path].kind # "other"
       /\ DbCall("backup_database",
                 CASE outcome = "ok" -> ""
                   [] outcome = "connect" -> ConnectFails
                   [] outcome = "connect_backup" -> "OperationalError"
                   [] OTHER -> "DatabaseError",
                 CASE outcome = "connect" -> {}
                   [] outcome = "connect_backup" -> {"conn"}
                   [] OTHER -> {"conn", "backup_conn"},
                 outcome = "ok")
       /\ DbReturn(path, "None")
       /\ files' = IF outcome = "ok"
                   THEN [files EXCEPT ![path] = DbFile(Backup(db, @.tables))]
                   ELSE files
       /\ backedUp' = IF outcome = "ok" THEN [backedUp EXCEPT ![path] = db]
                      ELSE backedUp
       /\ UNCHANGED <<db, dbCalls, lastSet, lastCached>>

\* restore_database(path): FileNotFoundError when nothing is at path, else
\* conn, backup_conn = sqlite3.connect(path), backup_conn.backup(conn),
\* backup_conn.close()
restore_database ==
    \E path \in BackupPaths, outcome \in {"ok", "missing", "connect", "backup"} :
       /\ (outcome = "missing") = (files[path].kind = "absent")
       /\ outcome = "ok" => files[path].kind = "db"
       /\ DbCall("restore_database",
                 CASE outcome = "ok" -> ""
                   [] outcome = "missing" -> "FileNotFoundError"
                   [] outcome = "connect" -> ConnectFails
                   [] OTHER -> "DatabaseError",
                 CASE outcome \in {"missing", "connect"} -> {}
                   [] OTHER -> {"conn", "backup_conn"},
                 outcome = "ok")
       /\ DbReturn(path, "None")
       /\ db' = IF outcome = "ok" THEN Backup(files[path].tables, db) ELSE db
       /\ UNCHANGED <<files, dbCalls, lastSet, lastCached, backedUp>>

\* the interpreter frees a connection object nobody refers to any more,
\* which closes it
collect ==
    /\ openConns # {}
    /\ openConns' = {}
    /\ UNCHANGED <<db, files, dbCalls, dbLast, dbCount, dbArg, dbRet, lastSet,
                   lastCached, backedUp>>

(***************************************************************************)
(* AluminumBrowserHistory, used as a context manager on a profile whose    *)
(* History file exists.  One action is one call of a method.               *)
(***************************************************************************)
RowIds == 1..MaxRows

\* a row of urls; every row has its own last_visit_time
UrlRow(i) == [id |-> i, last_visit_time |-> MaxRows + 1 - i]

NoCopy == [exists |-> FALSE, rows |-> {}]
Copy(rows) == [exists |-> TRUE, rows |-> rows]

NoExport == [exists |-> FALSE, format |-> "", records |-> <<>>]
Exported(format, records) == [exists |-> TRUE, format |-> format, records |-> records]

HistCall(op, arg, ret) == [op |-> op, arg |-> arg, ret |-> ret]

\* a returned bool, as the caller sees it
Bool(b) == IF b THEN "True" ELSE "False"

\* ORDER BY urls.last_visit_time DESC
RECURSIVE OrderByLastVisitDesc(_)
OrderByLastVisitDesc(rows) ==
    IF rows = {} THEN <<>>
    ELSE LET first == CHOOSE r \in rows :
                         \A q \in rows : q.last_visit_time <= r.last_visit_time
         IN <<first>> \o OrderByLastVisitDesc(rows \ {first})

\* LIMIT ? OFFSET ?: SQLite returns at most limit rows, and all of them
\* only when limit is negative; a negative offset counts as 0
LimitOffset(sorted, limit, offset) ==
    LET off == IF offset < 0 THEN 0 ELSE offset
        last == IF limit < 0 \/ off + limit > Len(sorted)
                THEN Len(sorted) ELSE off + limit
    IN SubSeq(sorted, off + 1, last)

\* _convert_chrome_time returns a datetime object
ConvertChromeTime(t) == <<"datetime", t>>

get_history(rows, limit, offset) ==
    LET selected == LimitOffset(OrderByLastVisitDesc(rows), limit, offset)
    IN [i \in 1..Len(selected) |->
          [id |-> selected[i].id,
           last_visit_time |-> ConvertChromeTime(selected[i].last_visit_time)]]

\* the limit export_history passes to get_history
ExportLimit == 0

\* json.dump has no encoding for a datetime
JsonSerializable(records) ==
    \A i \in 1..Len(records) : records[i].last_visit_time[1] # "datetime"

Formats == {"json", "csv", "xml"}

HistInit ==
    /\ histDb \in SUBSET {UrlRow(i) : i \in RowIds}
    /\ histCopy = NoCopy
    /\ connection = "none"
    /\ exportFile = NoExport
    /\ histLast = HistCall("__init__", "", "None")
    /\ cleared = FALSE
    /\ removed = {}
    /\ histPc = "outside"

HistIdle ==
    /\ histDb = {}
    /\ histCopy = NoCopy
    /\ connection = "none"
    /\ exportFile = NoExport
    /\ histLast = HistCall("idle", "", "None")
    /\ cleared = FALSE
    /\ removed = {}
    /\ histPc = "idle"

\* __enter__ -> _create_connection: copy History to History_backup and
\* connect to the copy
hist_enter ==
    /\ histPc = "outside"
    /\ histCopy' = Copy(histDb)
    /\ connection' = "open"
    /\ histLast' = HistCall("__enter__", "", "self")
    /\ histPc' = "inside"
    /\ UNCHANGED <<histDb, exportFile, cleared, removed>>

\* DELETE FROM urls WHERE id = ? on the connection, commit, return True;
\* False on sqlite3.Error
delete_history_entry ==
    \E url_id \in 1..(MaxRows + 1), ok \in BOOLEAN :
       /\ histPc = "inside"
       /\ histCopy' = IF ok
                      THEN Copy({r \in histCopy.rows : r.id # url_id})
                      ELSE histCopy
       /\ removed' = IF ok /\ (\E r \in histCopy.rows : r.id = url_id)
                     THEN removed \cup {url_id}
                     ELSE removed
       /\ histLast' = HistCall("delete_history_entry", url_id, Bool(ok))
       /\ UNCHANGED <<histDb, connection, exportFile, cleared, histPc>>

\* DELETE FROM urls on the connection, commit, return True; False on
\* sqlite3.Error
clear_history ==
    \E ok \in BOOLEAN :
       /\ histPc = "inside"
       /\ histCopy' = IF ok THEN Copy({}) ELSE histCopy
       /\ cleared' = (cleared \/ ok)
       /\ histLast' = HistCall("clear_history", "", Bool(ok))
       /\ UNCHANGED <<histDb, connection, exportFile, removed, histPc>>

\* export_history(output_file, format): history = get_history(limit=0),
\* then the file is opened for writing and the records are dumped.  An
\* IOError or the ValueError of an unknown format gives False; the
\* TypeError of json.dump is not caught.
export_history ==
    \E format \in Formats, opens \in BOOLEAN :
       LET records == get_history(histCopy.rows, ExportLimit, 0) IN
       /\ histPc = "inside"
       /\ exportFile' =
             CASE format = "xml" \/ ~opens -> exportFile
               [] format = "json" /\ ~JsonSerializable(records) ->
                     Exported(format, <<>>)
               [] OTHER -> Exported(format, records)
       /\ histLast' =
             HistCall("export_history", format,
                      CASE format = "xml" \/ ~opens -> Bool(FALSE)
                        [] format = "json" /\ ~JsonSerializable(records) ->
                              "TypeError"
                        [] OTHER -> Bool(TRUE))
       /\ UNCHANGED <<histDb, histCopy, connection, cleared, removed, histPc>>

\* __exit__ -> _close_connection: close the connection, remove the copy
hist_exit ==
    /\ histPc = "inside"
    /\ connection' = "closed"
    /\ histCopy' = NoCopy
    /\ histLast' = HistCall("__exit__", "", "None")
    /\ histPc' = "exited"
    /\ UNCHANGED <<histDb, exportFile, cleared, removed>>

(***************************************************************************)
(* Specifications                                                          *)
(***************************************************************************)
RemoverIdle ==
    /\ pc = "idle"
    /\ osType = ""
    /\ runLog = <<>>
    /\ historyFile = NoFile
    /\ origHistory = NoFile
    /\ backupFile = NoFile
    /\ related = [p \in RelatedPaths |-> "absent"]
    /\ cacheDir = "absent"
    /\ events = <<>>
    /\ written = 0

InitRemover == RemoverInit /\ CalcIdle /\ UnitsIdle /\ DbIdle /\ HistIdle /\ StatsIdle /\ ConstIdle /\ CompIdle
RemoverStep(A) == A /\ UNCHANGED <<calcVars, unitsVars, dbVars, histVars, statsVars, constVars, compVars>>
NextRemover ==
    \/ RemoverStep(determine_os)
    \/ RemoverStep(create_backup)
    \/ RemoverStep(remove_exists)
    \/ RemoverStep(remove_open)
    \/ RemoverStep(remove_write)
    \/ RemoverStep(remove_delete)
    \/ RemoverStep(clear_related_files)
    \/ RemoverStep(vacuum_database)
    \/ RemoverStep(clear_cache)
    \/ RemoverStep(restore_backup)
    \/ RemoverStep(run_except)
    \/ RemoverStep(run_finally)
SpecRemover == InitRemover /\ [][NextRemover]_vars

InitCalc == CalcInit /\ RemoverIdle /\ UnitsIdle /\ DbIdle /\ HistIdle /\ StatsIdle /\ ConstIdle /\ CompIdle
CalcStep(A) == A /\ UNCHANGED <<removerVars, unitsVars, dbVars, histVars, statsVars, constVars, compVars>>
NextCalc ==
    \/ CalcStep(evaluate)
SpecCalc == InitCalc /\ [][NextCalc]_vars

InitSafeEval == SafeEvalInit /\ RemoverIdle /\ UnitsIdle /\ DbIdle /\ HistIdle /\ StatsIdle /\ ConstIdle /\ CompIdle
NextSafeEval ==
    \/ CalcStep(evaluate)
SpecSafeEval == InitSafeEval /\ [][NextSafeEval]_vars

InitFuncCall == FuncCallInit /\ RemoverIdle /\ UnitsIdle /\ DbIdle /\ HistIdle /\ StatsIdle /\ ConstIdle /\ CompIdle
NextFuncCall ==
    \/ CalcStep(evaluate)
SpecFuncCall == InitFuncCall /\ [][NextFuncCall]_vars

InitUnits == UnitsInit /\ RemoverIdle /\ CalcIdle /\ DbIdle /\ HistIdle /\ StatsIdle /\ ConstIdle /\ CompIdle
UnitsStep(A) == A /\ UNCHANGED <<removerVars, calcVars, dbVars, histVars, statsVars, constVars, compVars>>
NextUnits ==
    \/ UnitsStep(convert)
    \/ UnitsStep(convert_back)
    \/ UnitsStep(convert_scaled)
SpecUnits == InitUnits /\ [][NextUnits]_vars

InitComp == CompInit /\ RemoverIdle /\ CalcIdle /\ UnitsIdle /\ DbIdle /\ HistIdle /\ StatsIdle /\ ConstIdle
CompStep(A) == A /\ UNCHANGED <<removerVars, calcVars, unitsVars, dbVars, histVars, statsVars, constVars>>
NextComp ==
    \/ CompStep(ensure_data_directory)
    \/ CompStep(initialize_database)
    \/ CompStep(collect_hardware_info)
    \/ CompStep(collect_os_info)
    \/ CompStep(collect_network_info)
    \/ CompStep(collect_browser_info)
    \/ CompStep(collect_performance_metrics)
    \/ CompStep(save_to_database)
    \/ CompStep(upload_to_server)
    \/ CompStep(compile_completed)
SpecComp == InitComp /\ [][NextComp]_vars

InitConst == ConstInit /\ RemoverIdle /\ CalcIdle /\ UnitsIdle /\ DbIdle /\ HistIdle /\ StatsIdle /\ CompIdle
ConstStep(A) == A /\ UNCHANGED <<removerVars, calcVars, unitsVars, dbVars, histVars, statsVars, compVars>>
NextConst ==
    \/ ConstStep(add_custom_constant)
    \/ ConstStep(remove_custom_constant)
SpecConst == InitConst /\ [][NextConst]_vars

InitStats == StatsInit /\ RemoverIdle /\ CalcIdle /\ UnitsIdle /\ DbIdle /\ HistIdle /\ ConstIdle /\ CompIdle
StatsStep(A) == A /\ UNCHANGED <<removerVars, calcVars, unitsVars, dbVars, histVars, constVars, compVars>>
NextStats ==
    \/ StatsStep(calculate_statistics)
SpecStats == InitStats /\ [][NextStats]_vars

InitDb == DbInit /\ RemoverIdle /\ CalcIdle /\ UnitsIdle /\ HistIdle /\ StatsIdle /\ ConstIdle /\ CompIdle
DbStep(A) == A /\ UNCHANGED <<removerVars, calcVars, unitsVars, histVars, statsVars, constVars, compVars>>
NextDb ==
    \/ DbStep(add_history_entry)
    \/ DbStep(add_bookmark)
    \/ DbStep(update_setting)
    \/ DbStep(get_setting)
    \/ DbStep(add_to_cache)
    \/ DbStep(get_from_cache)
    \/ DbStep(db_clear_cache)
    \/ DbStep(backup_database)
    \/ DbStep(restore_database)
    \/ DbStep(collect)
SpecDb == InitDb /\ [][NextDb]_vars

\* the calls on the settings alone
NextSettings ==
    \/ DbStep(update_setting)
    \/ DbStep(get_setting)
SpecSettings == InitDb /\ [][NextSettings]_vars

\* the calls on the cache alone
NextCache ==
    \/ DbStep(add_to_cache)
    \/ DbStep(get_from_cache)
    \/ DbStep(db_clear_cache)
SpecCache == InitDb /\ [][NextCache]_vars

InitHist == HistInit /\ RemoverIdle /\ CalcIdle /\ UnitsIdle /\ DbIdle /\ StatsIdle /\ ConstIdle /\ CompIdle
HistStep(A) == A /\ UNCHANGED <<removerVars, calcVars, unitsVars, dbVars, statsVars, constVars, compVars>>
NextHist ==
    \/ HistStep(hist_enter)
    \/ HistStep(delete_history_entry)
    \/ HistStep(clear_history)
    \/ HistStep(export_history)
    \/ HistStep(hist_exit)
SpecHist == InitHist /\ [][NextHist]_vars


(***************************************************************************)
(* Claims about AluminumHistoryRemover                                     *)
(***************************************************************************)
StepRank(step) ==
    CASE step = "create_backup" -> 1
      [] step = "open" -> 2
      [] step = "overwrite" -> 3
      [] step = "delete" -> 4
      [] step = "clear_related_files" -> 5
      [] step = "vacuum_database" -> 6
      [] step = "clear_cache" -> 7
      [] OTHER -> 8

Acted(step) == \E i \in 1..Len(events) : events[i].step = step
Succeeded(step) == \E i \in 1..Len(events) : events[i] = Ev(step, TRUE)
Failed(step) == \E i \in 1..Len(events) : events[i] = Ev(step, FALSE)

\* C1: the steps of remove_history_atomic act in the order backup,
\* overwrite of History (open for writing, write), delete of History,
\* related files, vacuum, cache; and History is opened for writing,
\* written or deleted only after create_backup has succeeded in this run.
C1_OrderAndBackupFirst ==
    /\ \A i, j \in 1..Len(events) :
          i < j => StepRank(events[i].step) < StepRank(events[j].step)
    /\ \A i \in 1..Len(events) :
          events[i].step \in {"open", "overwrite", "delete"} =>
             \E j \in 1..(i - 1) : events[j] = Ev("create_backup", TRUE)

\* C1 witness: a run that went through all six steps, with History deleted.
C1_Witness ==
    /\ pc = "done"
    /\ Succeeded("create_backup") /\ Succeeded("overwrite") /\ Succeeded("delete")
    /\ Acted("clear_related_files") /\ Acted("vacuum_database") /\ Acted("clear_cache")
    /\ ~historyFile.exists

\* C2 as claimed: whenever any step (backup, History removal, related
\* files, vacuum, cache) fails, restore_backup has been called by the time
\* remove_history_atomic returns.
C2_RestoreOnAnyFailure ==
    pc = "done" =>
       ((\E i \in 1..Len(events) :
            events[i].step # "restore_backup" /\ ~events[i].ok)
        => Acted("restore_backup"))

\* C2 amended: restore_backup is called before remove_history_atomic
\* returns exactly when create_backup or the removal of the History file
\* (open, overwrite, delete) raised; a failure inside related-file
\* clearing, vacuum or cache clearing is caught in that step and by itself
\* triggers no restore.
C2_RestoreOnRaisedFailure ==
    pc = "done" =>
       (Acted("restore_backup") <=>
          (Failed("create_backup") \/ Failed("open") \/ Failed("overwrite")
             \/ Failed("delete")))

\* C2 witness: the removal of History raised and restore_backup was called.
C2_Witness ==
    /\ pc = "done"
    /\ Succeeded("create_backup")
    /\ Failed("delete")
    /\ Acted("restore_backup")

\* C3 as claimed: when remove_history_file deletes the History file it has
\* before that written random bytes over the file's whole original length.
C3_OverwriteCoversOriginalLength ==
    Succeeded("delete") =>
       /\ Succeeded("overwrite")
       /\ written = Len(origHistory.data)

(***************************************************************************)
(* Claims about WebCalculator.evaluate                                     *)
(***************************************************************************)
\* the arithmetic the claims speak of, on fractions
Arith(op, x, y) ==
    CASE op = "+" -> RatAdd(x, y)
      [] op = "-" -> RatSub(x, y)
      [] op = "*" -> RatMul(x, y)
      [] OTHER -> RatDiv(x, y)

DividesByZero(op, y) == op = "/" /\ y = Rat(0)

\* C4: evaluate respects precedence: "a+b*c", "a-b*c", "a+b/c" (c not 0)
\* and "a*b+c" give a+(b*c), a-(b*c), a+(b/c) and (a*b)+c; "a/b+c" and
\* "a/b-c" likewise; two operators of equal precedence among + - * / are
\* applied left to right.
C4_Precedence ==
    (calcPc = "done" /\ Len(expression) = 5) =>
       LET a == expression[1]
           o1 == expression[2]
           b == expression[3]
           o2 == expression[4]
           c == expression[5]
           x == NumVal(a)
           y == NumVal(b)
           z == NumVal(c)
           low == {"+", "-"}
           high == {"*", "/"}
       IN  (/\ {a, b, c} \subseteq Numerals
            /\ {o1, o2} \subseteq low \cup high
            /\ ~DividesByZero(o1, y) /\ ~DividesByZero(o2, z))
           => result = Number(IF o1 \in low /\ o2 \in high
                              THEN Arith(o1, x, Arith(o2, y, z))
                              ELSE Arith(o2, Arith(o1, x, y), z))

\* C4 witness: "2+1*2" has been evaluated to 4.
C4_Witness ==
    /\ calcPc = "done"
    /\ expression = <<"2", "+", "1", "*", "2">>
    /\ result = Number(Rat(4))

\* operands and operators in turn, no parentheses
Flat(e) ==
    /\ Len(e) % 2 = 1
    /\ \A i \in 1..Len(e) :
         IF i % 2 = 1 THEN e[i] \in Numerals ELSE e[i] \in Operators

\* expressions in which the right operand of a "/" is 0
ZeroDivisor(e) ==
    \/ /\ Flat(e)
       /\ \E i \in 1..(Len(e) - 1) :
            /\ e[i] = "/"
            /\ e[i + 1] = "0"
            /\ i + 2 <= Len(e) => e[i + 2] # "^"
    \/ \E a \in Numerals : e = <<a, "/", "(", "0", ")">>

\* C5 as claimed: when the right operand of a "/" is 0, evaluate raises an
\* error to its caller and returns no value.
C5_DivisionByZeroRaises ==
    (calcPc = "done" /\ ZeroDivisor(expression)) => result.kind = "raised"

\* C5 amended: when the right operand of a "/" is 0, evaluate raises
\* nothing to its caller: it returns the string "Error: Division by zero"
\* (the ValueError of _evaluate_rpn, caught), never a number, and appends
\* nothing to the history.
C5_DivisionByZeroErrorString ==
    (calcPc = "done" /\ ZeroDivisor(expression)) =>
       /\ result = ErrorString("Error: Division by zero")
       /\ history = <<>>

\* C5 witness: "1/0" has been evaluated.
C5_Witness ==
    /\ calcPc = "done"
    /\ expression = <<"1", "/", "0">>
    /\ result.kind = "string"

\* the messages of the exceptions the evaluation raises
ErrorMessages ==
    {"pop from empty list", "Division by zero", "Invalid expression",
     "0.0 cannot be raised to a negative power"}
       \cup {"Not enough arguments for " \o f : f \in SupportedFunctions}

\* C11: evaluate returns to its caller, for every expression, either a
\* number or a string that starts with "Error: "; it never lets an
\* exception through, and when it returns an error string the history is
\* as it was before the call.
C11_NumberOrErrorString ==
    calcPc = "done" =>
       \/ result.kind = "number"
       \/ /\ result.kind = "string"
          /\ \E m \in ErrorMessages : result.msg = "Error: " \o m
          /\ history = <<>>

\* C11 witness: "1+" has been evaluated; the IndexError of the empty stack
\* came back as a string and the history is empty.
C11_Witness ==
    /\ calcPc = "done"
    /\ expression = <<"1", "+">>
    /\ safe.exc = "IndexError"
    /\ result = [kind |-> "string", val |-> <<0, 1>>,
                 msg |-> "Error: pop from empty list"]
    /\ history = <<>>

\* the nesting depth of parentheses after each token, and whether a ")"
\* came with no "(" open
RECURSIVE ParenDepth(_, _, _)
ParenDepth(e, i, depth) ==
    IF i > Len(e) THEN depth
    ELSE CASE e[i] = "(" -> ParenDepth(e, i + 1, depth + 1)
           [] e[i] = ")" -> IF depth = 0 THEN -1
                            ELSE ParenDepth(e, i + 1, depth - 1)
           [] OTHER -> ParenDepth(e, i + 1, depth)

UnmatchedParen(e) == ParenDepth(e, 1, 0) # 0

\* a binary operator with nothing that could be an operand on one side
LacksOperand(e) ==
    \E i \in 1..Len(e) :
       /\ e[i] \in {"+", "-", "*", "/", "^"}
       /\ \/ i = 1
          \/ i = Len(e)
          \/ e[i - 1] \in {"+", "-", "*", "/", "^", "("}
          \/ e[i + 1] \in {"+", "-", "*", "/", "^", ")"}

UnknownName(e) == \E i \in 1..Len(e) : e[i] = "x"

\* C12 as claimed: for an expression with an unmatched parenthesis, a
\* binary operator that lacks an operand, or a name that is no supported
\* function, _safe_eval raises ValueError and returns no number.
C12_MalformedRaisesValueError ==
    (/\ calcPc = "done"
     /\ UnmatchedParen(expression) \/ LacksOperand(expression) \/ UnknownName(expression))
    => safe.raised /\ safe.exc = "ValueError"

\* the tokens of "f(x) op y"
FuncCall(e) ==
    /\ Len(e) = 6
    /\ e[1] \in SupportedFunctions
    /\ e[2] = "(" /\ IsNumber(e[3]) /\ e[4] = ")"
    /\ e[5] \in Operators
    /\ IsNumber(e[6])

\* C22 as claimed: for every supported function f and binary operator op
\* the tokens of "f(x) op y" are converted by _infix_to_rpn to the RPN
\* sequence x f y op, and the expression evaluates as (f(x)) op y.
C22_FunctionAppliesToOwnArgument ==
    (calcPc = "done" /\ FuncCall(expression)) =>
       LET claimed == <<expression[3], expression[1], expression[6], expression[5]>>
       IN  /\ InfixToRpn(expression) = Returned(claimed)
           /\ safe = EvaluateRpn(claimed)

\* the tokens of "a^b^c"
PowerChain(e) ==
    /\ Len(e) = 5
    /\ IsNumber(e[1]) /\ e[2] = "^" /\ IsNumber(e[3]) /\ e[4] = "^"
    /\ IsNumber(e[5])

\* C23 as claimed: "a^b^c" is converted to the RPN sequence a b c ^ ^ and
\* evaluates as a^(b^c), and "^" binds tighter than "*" and "/": in
\* "a*b^c" and "a^b*c" the power is applied first.
C23_PowerRightAssociative ==
    calcPc = "done" =>
       /\ PowerChain(expression) =>
             LET claimed == <<expression[1], expression[3], expression[5], "^", "^">>
             IN  /\ InfixToRpn(expression) = Returned(claimed)
                 /\ safe = EvaluateRpn(claimed)
       /\ \A op \in {"*", "/"} :
             /\ (/\ Len(expression) = 5
                 /\ IsNumber(expression[1]) /\ expression[2] = op
                 /\ IsNumber(expression[3]) /\ expression[4] = "^"
                 /\ IsNumber(expression[5]))
                => InfixToRpn(expression) =
                      Returned(<<expression[1], expression[3], expression[5], "^", op>>)
             /\ (/\ Len(expression) = 5
                 /\ IsNumber(expression[1]) /\ expression[2] = "^"
                 /\ IsNumber(expression[3]) /\ expression[4] = op
                 /\ IsNumber(expression[5]))
                => InfixToRpn(expression) =
                      Returned(<<expression[1], expression[3], "^", expression[5], op>>)

\* C24: if remove_history_file fails (at opening, overwriting or deleting)
\* after create_backup succeeded, and the copy of restore_backup succeeds,
\* then when remove_history_atomic has returned the History file exists
\* with exactly the content it had before the run.
C24_RestoredAfterFailedRemoval ==
    (/\ pc \in {"done", "run_finally", "returned"}
     /\ Succeeded("create_backup")
     /\ Failed("open") \/ Failed("overwrite") \/ Failed("delete")
     /\ Succeeded("restore_backup"))
    => historyFile.exists /\ historyFile = origHistory

\* C24 witness: History was overwritten in full, its deletion failed, and
\* the restore put the original bytes back.
C24_Witness ==
    /\ pc = "done"
    /\ Succeeded("create_backup")
    /\ Succeeded("overwrite")
    /\ Failed("delete")
    /\ Succeeded("restore_backup")
    /\ origHistory.exists /\ Len(origHistory.data) > 0
    /\ historyFile = origHistory

\* the positions of a run that has not ended, and the one of a run that
\* has returned
RunPositions ==
    {"determine_os", "create_backup", "remove_exists", "remove_open",
     "remove_write", "remove_delete", "clear_related_files", "vacuum_database",
     "clear_cache", "restore_backup", "done", "run_except", "run_finally",
     "returned"}

\* C20: run lets no exception through: it is under way or has returned,
\* whatever failed (an unsupported system, the backup, the removal, the
\* restore), and when it has returned the last message it logged is the
\* one of its finally clause; an exception that left
\* remove_history_atomic was logged as critical before it.
C20_RunNeverRaises ==
    /\ pc \in RunPositions
    /\ pc = "returned" =>
          /\ runLog[Len(runLog)] = "Aluminum history removal process completed"
          /\ osType = "unsupported" =>
                /\ events = <<>>
                /\ runLog[Len(runLog) - 1] = "Critical error during history removal"

\* C20 witness: the backup was made, the removal failed, the restore
\* failed as well, and run has returned.
C20_Witness ==
    /\ pc = "returned"
    /\ Len(events) >= 3
    /\ events[1] = [step |-> "create_backup", ok |-> TRUE]
    /\ events[Len(events)] = [step |-> "restore_backup", ok |-> FALSE]
    /\ runLog[Len(runLog)] = "Aluminum history removal process completed"

(***************************************************************************)
(* Claims about SystemDataCompiler                                         *)
(***************************************************************************)
Logged(message) == \E i \in 1..Len(compLog) : compLog[i] = message

\* C19: a run of compile_system_data sends at most one POST; an upload that
\* failed or was rejected has been logged, is not tried again, and lets no
\* exception through to the caller.
C19_NoRetries ==
    /\ posts <= 1
    /\ uploaded \in {"failed", "rejected"} =>
          /\ posts = 1
          /\ Logged("Error uploading data to server")
          /\ compRaised = ""
          /\ compPc \in {"done", "returned"}

\* C19 witness: the one POST was rejected and compile_system_data returned.
C19_Witness ==
    /\ compPc = "returned"
    /\ uploaded = "rejected"
    /\ posts = 1
    /\ compRaised = ""

(***************************************************************************)
(* Claims about WebCalculator's constants                                  *)
(***************************************************************************)
\* the names of C17's calls that are alphabetic
AlphabeticNames ==
    {<<"p", "i">>, <<"e">>, <<"p", "h", "i">>, <<"c">>, <<"g">>, <<"t">>,
     <<"t", "a", "u">>}

\* pi, e, phi, c and g are present with the values __init__ gave them
BuiltInsIntact(map) ==
    /\ <<"p", "i">> \in DOMAIN map /\ map[<<"p", "i">>] = "math.pi"
    /\ <<"e">> \in DOMAIN map /\ map[<<"e">>] = "math.e"
    /\ <<"p", "h", "i">> \in DOMAIN map
    /\ map[<<"p", "h", "i">>] = "(1 + math.sqrt(5)) / 2"
    /\ <<"c">> \in DOMAIN map /\ map[<<"c">>] = "299792458"
    /\ <<"g">> \in DOMAIN map /\ map[<<"g">>] = "9.80665"

\* C17: every add_custom_constant and remove_custom_constant call leaves
\* the five built-in constants present with their initial values;
\* add_custom_constant raises ValueError exactly for a name that is not
\* alphabetic or is already a constant, remove_custom_constant exactly for
\* a name that is no constant or is built in, and a call that raises
\* leaves the constants as they were.
C17_BuiltInConstantsKept ==
    [][constCount' = constCount + 1 =>
         LET name == constLast'.name
             raised == constLast'.exc = "ValueError"
         IN /\ BuiltInsIntact(constants')
            /\ constLast'.op = "add_custom_constant" =>
                  raised = (name \notin AlphabeticNames \/ name \in DOMAIN constants)
            /\ constLast'.op = "remove_custom_constant" =>
                  raised = (\/ name \notin DOMAIN constants
                            \/ name \in {<<"p", "i">>, <<"e">>, <<"p", "h", "i">>,
                                          <<"c">>, <<"g">>})
            /\ raised => constants' = constants
            /\ ~raised => constLast'.exc = ""]_vars

\* C17 witness: with the custom constant t defined, removing phi raised.
C17_Witness ==
    /\ constLast = [op |-> "remove_custom_constant", name |-> <<"p", "h", "i">>,
                    exc |-> "ValueError"]
    /\ <<"t">> \in DOMAIN constants
    /\ BuiltInsIntact(constants)

\* C13 as claimed: calculate_statistics returns, for every list, a dict
\* with the keys count, sum, mean, median, mode, range, variance and
\* std_dev; for the empty list count and sum are 0 and the others None.
C13_StatisticsDict ==
    statsPc = "done" =>
       /\ stats.kind = "dict"
       /\ DOMAIN stats.items = {"count", "sum", "mean", "median", "mode",
                                "range", "variance", "std_dev"}
       /\ data = <<>> =>
             \A key \in DOMAIN stats.items :
                stats.items[key] = IF key \in {"count", "sum"}
                                   THEN [none |-> FALSE, num |-> 0]
                                   ELSE [none |-> TRUE, num |-> 0]

(***************************************************************************)
(* Claims about WebCalculator.convert_units                                *)
(***************************************************************************)
SameCategory(u, v) ==
    \E names \in {{"m", "km", "cm", "mm", "in", "ft", "yd", "mi"},
                  {"kg", "g", "mg", "lb", "oz"},
                  {"l", "ml", "gal", "qt", "pt", "cup", "floz"}} :
       u \in names /\ v \in names

\* C6: for units u, v of one category, converting x from u to v and back
\* gives x, converting from u to u gives x, and converting k*x gives k
\* times the conversion of x.
C6_LinearInvertible ==
    SameCategory(units.from, units.to) =>
       /\ unitsPc \in {"convert_back", "convert_scaled", "done"} =>
             /\ ~converted.raised
             /\ units.from = units.to => converted.val = units.value
       /\ unitsPc \in {"convert_scaled", "done"} =>
             /\ ~back.raised
             /\ back.val = units.value
       /\ unitsPc = "done" =>
             /\ ~scaled.raised
             /\ scaled.val = SciMul(units.k, converted.val)

\* C6 witness: 2 m converted to ft (2500/381 ft) and back, and 2 * 2 m.
C6_Witness ==
    /\ unitsPc = "done"
    /\ units = [value |-> Dec(2, 1), from |-> "m", to |-> "ft", k |-> Dec(2, 1)]
    /\ converted.val = Dec(2500, 381)
    /\ back.val = Dec(2, 1)
    /\ scaled.val = Dec(5000, 381)

\* a float of the model: (n/d) * 2^a * 5^b with a positive denominator
IsFloat(v) == Len(v) = 4 /\ v[1] \in Int /\ v[2] \in Nat \ {0}

\* C21: convert_units raises ValueError whenever from_unit and to_unit are
\* not both in the same one of the three categories (an unknown unit
\* included), and returns a number in every other case.
C21_RaisesIffNotOneCategory ==
    unitsPc \in {"convert_back", "convert_scaled", "done"} =>
       IF SameCategory(units.from, units.to)
       THEN ~converted.raised /\ IsFloat(converted.val)
       ELSE converted.raised /\ converted.exc = "ValueError"

\* C21 witness: metres to kilograms is refused with the ValueError.
C21_Witness ==
    /\ unitsPc = "done"
    /\ units.from = "m"
    /\ units.to = "kg"
    /\ converted = Raised("ValueError", "Unsupported or incompatible units")

(***************************************************************************)
(* Claims about AluminumDatabase                                           *)
(***************************************************************************)
HistoryRows(u) == {i \in 1..Len(db.history) : db.history[i].url = u}

\* C7 as claimed: after any sequence of add_history_entry calls the history
\* table holds exactly one row per url that was added, and that row's
\* visit_count is the number of add_history_entry calls made for the url.
C7_OneRowPerUrl ==
    \A u \in Urls :
       /\ Cardinality(HistoryRows(u)) = (IF dbCalls[u] > 0 THEN 1 ELSE 0)
       /\ \A i \in HistoryRows(u) : db.history[i].visit_count = dbCalls[u]

\* C10 as claimed: every connection opened during an operation, the second
\* connection of backup_database and restore_database included, is closed
\* by the time the operation returns or raises.
C10_NoConnectionLeftOpen == openConns = {}

\* C14: a restore_database(p) that returns leaves in the database exactly
\* the rows of history, bookmarks, settings and cache it held when the last
\* backup_database(p) returned, whatever was written in between; with
\* nothing at p, restore_database raises FileNotFoundError and the database
\* is as before.
C14_BackupRestoreRoundTrip ==
    [][(dbLast'.op = "restore_database" /\ dbCount' = dbCount + 1) =>
         /\ dbLast'.exc = "" => db' = backedUp[dbArg']
         /\ files[dbArg'].kind = "absent" =>
               dbLast'.exc = "FileNotFoundError" /\ db' = db]_vars

\* C14 witness: a backup of the empty database, an update_setting that
\* returned, and the restore, after which the setting is gone again.
C14_Witness ==
    /\ dbLast = [op |-> "restore_database", exc |-> ""]
    /\ dbCount = 3
    /\ lastSet["k1"] = "v1"
    /\ files[dbArg].kind = "db"
    /\ db.settings = {}

\* C15: the settings table holds, for each key, the value of the last
\* update_setting of that key that returned and nothing for a key never
\* set (so an update_setting of k touches no other key), and get_setting(k)
\* returns that value, or None.
C15_SettingsAreAMap ==
    /\ db.settings = {<<k, lastSet[k]>> : k \in {j \in SettingKeys : lastSet[j] # "None"}}
    /\ (dbLast.op = "get_setting" /\ dbLast.exc = "") => dbRet = lastSet[dbArg]

\* C15 witness: get_setting("k1") returned "v2" after k1 was set to "v2",
\* k2 holding "v1".
C15_Witness ==
    /\ dbLast = [op |-> "get_setting", exc |-> ""]
    /\ dbArg = "k1"
    /\ dbRet = "v2"
    /\ db.settings = {<<"k1", "v2">>, <<"k2", "v1">>}

\* C16: the cache holds at most one entry per url, and get_from_cache(u)
\* returns the content of the last add_to_cache(u, content) that returned
\* since the last clear_cache, or None when there was none.
C16_CacheOneEntryPerUrl ==
    /\ \A u \in Urls : Cardinality({row \in db.cache : row[1] = u}) <= 1
    /\ (dbLast.op = "get_from_cache" /\ dbLast.exc = "") => dbRet = lastCached[dbArg]

\* C16 witness: get_from_cache("u1") returned "c2", the only entry of u1.
C16_Witness ==
    /\ dbLast = [op |-> "get_from_cache", exc |-> ""]
    /\ dbArg = "u1"
    /\ dbRet = "c2"
    /\ dbCount = 3
    /\ db.cache = {<<"u1", "c2">>}

(***************************************************************************)
(* Claims about AluminumBrowserHistory                                     *)
(***************************************************************************)
\* C8 as claimed: once clear_history has returned True inside the
\* with-block, the profile's History holds no urls rows, during the block
\* and after it has exited; and a row that delete_history_entry removed is
\* no longer in History.
C8_ClearedHistoryIsEmpty ==
    /\ cleared => histDb = {}
    /\ \A id \in removed : \A r \in histDb : r.id # id

\* C18 as claimed: delete_history_entry(url_id) returns True only when a
\* urls row with that id existed and was removed by the call; it returns
\* False when no row has the id or the database reports an error.
C18_DeleteReportsRemoval ==
    (histLast.op = "delete_history_entry" /\ histLast.ret = "True")
    => histLast.arg \in removed

\* C9 as claimed: export_history with format json or csv, when the output
\* file can be written, returns True and leaves in the file one record for
\* every row of the urls table it reads.
C9_ExportsEveryRow ==
    (/\ histLast.op = "export_history"
     /\ histLast.arg \in {"json", "csv"}
     /\ exportFile.exists /\ exportFile.format = histLast.arg)
    => /\ histLast.ret = Bool(TRUE)
       /\ Len(exportFile.records) = Cardinality(histCopy.rows)

====
